---- MODULE Spec2Model ----
(***************************************************************************)
(* Meal planner backend (src/main.py): the deterministic ingredient        *)
(* extractor normalize_request, the module-level configuration, and the    *)
(* POST /api/menu handler generate_menu with its stub mode and its         *)
(* two-round exchange with the generative model.                           *)
(*                                                                         *)
(* Text that the code inspects character by character (the request input   *)
(* and the user_text argument) is a sequence of one-character tokens.      *)
(* "NL", "CR" and "TAB" stand for the control characters, "Idot" for       *)
(* U+0130 (capital I with dot above) and "dot" for U+0307 (combining dot   *)
(* above): str.lower() turns U+0130 into the two characters "i" U+0307.    *)
(* Text the code only passes along (model output, messages) is a string.   *)
(***************************************************************************)
EXTENDS Integers, Sequences, FiniteSets, TLC

(***************************************************************************)
(* Bounds of the checked input space                                       *)
(***************************************************************************)
\* longest enumerated free text (and tail after the marker)
MaxTail == 3

(***************************************************************************)
(* Program constants                                                       *)
(***************************************************************************)
\* len(text) <= 200
Threshold == 200

\* the literal "ingredients:"
Marker == <<"i", "n", "g", "r", "e", "d", "i", "e", "n", "t", "s", ":">>

\* the error text of the extractor
MissingMsg == "Missing ingredients. Please include 'ingredients: item1, item2, ...' or a comma-separated list."

\* characters str.strip() removes
Whitespace == {" ", "TAB", "NL", "CR"}

\* characters str.splitlines() breaks at
LineBreaks == {"NL", "CR"}

(***************************************************************************)
(* Python string operations, as the extractor uses them                    *)
(***************************************************************************)
RECURSIVE LStrip(_)
LStrip(s) ==
    IF s = <<>> THEN s
    ELSE IF Head(s) \in Whitespace THEN LStrip(Tail(s)) ELSE s

RECURSIVE RStrip(_)
RStrip(s) ==
    IF s = <<>> THEN s
    ELSE IF s[Len(s)] \in Whitespace THEN RStrip(SubSeq(s, 1, Len(s) - 1)) ELSE s

\* str.strip()
Strip(s) == RStrip(LStrip(s))

\* str.lower() of one character; U+0130 lowers to two characters
LowerChar(c) ==
    CASE c = "I" -> <<"i">>
      [] c = "A" -> <<"a">>
      [] c = "Idot" -> <<"i", "dot">>
      [] OTHER -> <<c>>

RECURSIVE Lower(_)
\* str.lower(): the lowering of every character, in order (computed by halves)
Lower(s) ==
    IF s = <<>> THEN <<>>
    ELSE IF Len(s) = 1 THEN LowerChar(s[1])
    ELSE LET h == Len(s) \div 2
         IN Lower(SubSeq(s, 1, h)) \o Lower(SubSeq(s, h + 1, Len(s)))

\* str.find(p): 0-based index of the first occurrence of p in s, -1 if none
Find(s, p) ==
    LET hits == {i \in 0..(Len(s) - Len(p)) : SubSeq(s, i + 1, i + Len(p)) = p}
    IN IF hits = {} THEN -1 ELSE CHOOSE i \in hits : \A j \in hits : i <= j

\* p in s
Contains(s, p) == Find(s, p) # -1

\* s[k:] for k >= 0
SliceFrom(s, k) == IF k >= Len(s) THEN <<>> ELSE SubSeq(s, k + 1, Len(s))

\* 1-based index of the first character of s that lies in set cs, 0 if none
FirstIn(s, cs) ==
    LET hits == {i \in 1..Len(s) : s[i] \in cs}
    IN IF hits = {} THEN 0 ELSE CHOOSE i \in hits : \A j \in hits : i <= j

RECURSIVE Splitlines(_)
\* str.splitlines(): "" gives [], a trailing break gives no extra line,
\* CR NL is one break
Splitlines(s) ==
    IF s = <<>> THEN <<>>
    ELSE LET k == FirstIn(s, LineBreaks)
         IN IF k = 0 THEN <<s>>
            ELSE LET e == IF s[k] = "CR" /\ k < Len(s) /\ s[k + 1] = "NL"
                          THEN k + 1 ELSE k
                 IN <<SubSeq(s, 1, k - 1)>> \o Splitlines(SliceFrom(s, e))

RECURSIVE Split(_, _)
\* str.split(sep) for a one-character sep: "" gives [""]
Split(s, sep) ==
    LET k == FirstIn(s, {sep})
    IN IF k = 0 THEN <<s>>
       ELSE <<SubSeq(s, 1, k - 1)>> \o Split(SliceFrom(s, k), sep)

IsNonEmpty(x) == x # <<>>

\* [x.strip() for x in s.split(",") if x.strip()]
StripPieces(s) ==
    LET raw == Split(s, ",")
    IN SelectSeq([i \in 1..Len(raw) |-> Strip(raw[i])], IsNonEmpty)

(***************************************************************************)
(* normalize_request: the ingredient extractor                             *)
(***************************************************************************)
\* the slice offset: lower.index("ingredients:") + len("ingredients:")
AfterOffset(lower) == Find(lower, Marker) + Len(Marker)

\* after.splitlines()[0], raising IndexError when there is no line
FirstLine(lines) == IF lines = <<>> THEN [exception |-> "IndexError", line |-> <<>>]
                    ELSE [exception |-> "none", line |-> lines[1]]

\* line 101 with < for <=
CommaFallbackStrict(text) == Contains(text, <<",">>) /\ Len(text) < Threshold

\* line 101: the guard of the comma fallback
CommaFallback(text) == Contains(text, <<",">>) /\ Len(text) <= Threshold

\* the returned dict, or the exception the call raises
normalize_request(user_text) ==
    LET text == Strip(user_text)
        lower == Lower(text)
    IN IF Contains(lower, Marker)
       THEN LET after == Strip(SliceFrom(text, AfterOffset(lower)))
                fl == FirstLine(Splitlines(after))
                ingredients == StripPieces(Strip(fl.line))
            IN IF fl.exception # "none" THEN [exception |-> fl.exception]
               ELSE IF ingredients = <<>>
                    THEN [error |-> MissingMsg, ingredients |-> <<>>, notes |-> text]
                    ELSE [ingredients |-> ingredients, notes |-> text]
       ELSE LET ingredients == IF CommaFallback(text) THEN StripPieces(text) ELSE <<>>
            IN IF ingredients = <<>>
               THEN [error |-> MissingMsg, ingredients |-> <<>>, notes |-> text]
               ELSE [ingredients |-> ingredients, notes |-> text]

Raised(out) == "exception" \in DOMAIN out

(***************************************************************************)
(* The inputs the extractor is checked on                                  *)
(***************************************************************************)
Alphabet == {"a", "b", ",", " ", "NL"}

\* all texts over Alphabet of at most MaxTail characters
SmallTexts == UNION {[1..n -> Alphabet] : n \in 0..MaxTail}

\* the marker as typed: lower case, or with capital letters
MarkerForms == {Marker, <<"I">> \o Tail(Marker)}

Prefixes == {<<>>, <<"a">>, <<" ">>, <<"a", ",">>, <<"Idot">>, <<"Idot", "Idot">>}

\* n times the letter "a"
Pad(n) == [i \in 1..n |-> "a"]

\* marker inputs, free texts, texts around the length threshold, and a text
\* with two markers
Inputs ==
    SmallTexts
    \cup {p \o m \o t : p \in Prefixes, m \in MarkerForms, t \in SmallTexts}
    \cup {Pad(Threshold - 2) \o t : t \in SmallTexts}
    \cup {Marker \o <<"a", ",">> \o Marker \o <<"b">>}

(***************************************************************************)
(* The process environment and the model client's possible behaviour       *)
(***************************************************************************)
\* longest enumerated request text (and tail after the marker)
MaxReqTail == 1

\* requests a run of the service answers
MaxRequests == 2

\* clients that post at the same time
NumClients == 2

Clients == 1..NumClients

Unset == "<unset>"

\* os.getenv values
StubEnvValues == {Unset, "1", "0", "true"}

ProjectEnvValues == {Unset, "", "my-project"}

\* SECRET_CONFIG_TEXT: None, or the secret's payload
SecretTexts == {"None", "extra config"}

\* request bodies: req.input
ReqTexts == UNION {[1..n -> Alphabet] : n \in 0..MaxReqTail}

ReqInputs == ReqTexts \cup {Marker \o t : t \in ReqTexts}

\* function names the model may ask for
FunctionNames == {"normalize_request", "Normalize_Request", "get_weather"}

\* fc.args: without user_text, or with one
ArgDicts ==
    {<<>>} \cup {[user_text |-> u] :
                   u \in {<<"a">>, <<"a", ",", "b">>, Marker, Marker \o <<"a", ",", "b">>}}

FunctionCalls == {[name |-> n, args |-> d] : n \in FunctionNames, d \in ArgDicts}

TextPart(t) == [text |-> t]

CallPart(fc) == [function_call |-> fc]

Response(parts) == [candidates |-> <<[parts |-> parts]>>]

NoCandidates == [candidates |-> <<>>]

\* what generate_content can return to the first request
FirstResponses ==
    {NoCandidates, Response(<<>>)}
    \cup {Response(<<TextPart(t)>>) : t \in {"", "Plan A"}}
    \cup {Response(<<CallPart(fc)>>) : fc \in FunctionCalls}
    \cup {Response(<<TextPart("Let me check."), CallPart(fc)>>) : fc \in FunctionCalls}

\* what generate_content can return to the second request
SecondResponses ==
    {NoCandidates, Response(<<>>)}
    \cup {Response(<<TextPart(t)>>) : t \in {"", "Plan B"}}
    \cup {Response(<<TextPart("Plan B"), TextPart("Enjoy.")>>)}
    \cup {Response(<<CallPart([name |-> "normalize_request", args |-> <<>>])>>)}

\* messages of the errors generate_content can raise
FailureMessages == {"503 Service Unavailable", "403 Permission denied"}

(***************************************************************************)
(* State                                                                   *)
(***************************************************************************)
VARIABLES
    ex_pc,              \* extractor call: "off", "ready" or "returned"
    ex_in,              \* the user_text the extractor is called with
    ex_out,             \* what the call returned or raised
    env,                \* the environment: DEBUG_STUB, PROJECT_ID
    phase,              \* "import", "serving" or "failed"
    DEBUG_STUB,         \* module global
    PROJECT_ID,         \* module global
    SECRET_CONFIG_TEXT, \* module global
    model,              \* module global: "None" or "GenerativeModel"
    pc,                 \* the request: "idle", "AwaitingFirstResponse",
                        \* "AwaitingToolResult" or "Done"
    input,              \* req.input of the request being handled
    first,              \* outcome of the first generate_content call
    second,             \* outcome of the second generate_content call
    tool_arg,           \* what normalize_request was called with
    tool_out,           \* what normalize_request returned or raised
    log,                \* the calls the request made, in order
    response,           \* the HTTP response of the request
    served,             \* number of requests answered so far
    reqs                \* the locals of every request in flight, when
                        \* several clients post at once

exvars == <<ex_pc, ex_in, ex_out>>

config == <<env, phase, DEBUG_STUB, PROJECT_ID, SECRET_CONFIG_TEXT, model>>

reqvars == <<pc, input, first, second, tool_arg, tool_out, log, response>>

vars == <<exvars, config, reqvars, served, reqs>>

Pending == [pending |-> TRUE]

\* the locals of a request that has not been posted
Idle ==
    [pc |-> "idle", input |-> <<>>, first |-> Pending, second |-> Pending,
     tool_arg |-> <<>>, tool_out |-> Pending, log |-> <<>>, response |-> Pending,
     peers |-> {}]

\* Python None in a JSON body
Null == [null |-> TRUE]

(***************************************************************************)
(* Module import: lines 40-57                                              *)
(***************************************************************************)
\* os.getenv(name, default)
Getenv(value, default) == IF value = Unset THEN default ELSE value

\* bool(x) of an optional string
Truthy(x) == x \notin {Unset, "None", ""}

\* lines 301-308 of the superseded variant: fall back to stub mode
VertexInitFallback(debug_stub, project_id) ==
    IF debug_stub THEN [raised |-> FALSE, DEBUG_STUB |-> TRUE, model |-> "None"]
    ELSE IF ~Truthy(project_id)
         THEN [raised |-> FALSE, DEBUG_STUB |-> TRUE, model |-> "None"]
         ELSE [raised |-> FALSE, DEBUG_STUB |-> FALSE, model |-> "GenerativeModel"]

\* lines 52-57: the model handle, or RuntimeError
VertexInit(debug_stub, project_id) ==
    IF debug_stub THEN [raised |-> FALSE, DEBUG_STUB |-> TRUE, model |-> "None"]
    ELSE IF ~Truthy(project_id)
         THEN [raised |-> TRUE, DEBUG_STUB |-> FALSE, model |-> "None"]
         ELSE [raised |-> FALSE, DEBUG_STUB |-> FALSE, model |-> "GenerativeModel"]

NoRequest ==
    /\ pc = "idle"
    /\ input = <<>>
    /\ first = Pending
    /\ second = Pending
    /\ tool_arg = <<>>
    /\ tool_out = Pending
    /\ log = <<>>
    /\ response = Pending

\* the interpreter has evaluated lines 40-52
Init ==
    /\ ex_pc = "off" /\ ex_in = <<>> /\ ex_out = Pending
    /\ env \in [DEBUG_STUB : StubEnvValues, PROJECT_ID : ProjectEnvValues]
    /\ phase = "import"
    /\ DEBUG_STUB = (Getenv(env.DEBUG_STUB, "1") = "1")
    /\ PROJECT_ID = env.PROJECT_ID
    /\ SECRET_CONFIG_TEXT \in SecretTexts
    /\ model = "None"
    /\ NoRequest
    /\ served = 0
    /\ reqs = [c \in Clients |-> Idle]

\* lines 53-57, then the application object is built and served
Startup ==
    /\ phase = "import"
    /\ LET r == VertexInit(DEBUG_STUB, PROJECT_ID)
       IN /\ phase' = IF r.raised THEN "failed" ELSE "serving"
          /\ DEBUG_STUB' = r.DEBUG_STUB
          /\ model' = r.model
    /\ UNCHANGED <<env, PROJECT_ID, SECRET_CONFIG_TEXT, exvars, reqvars, served, reqs>>

(***************************************************************************)
(* HTTP responses                                                          *)
(***************************************************************************)
StubText == "Breakfast: Simple oatmeal (if allowed)\nLunch: Tofu + tomato pasta\nDinner: Stir-fried spinach tofu\nShopping List: (optional) olive oil, garlic"

\* a returned dict, rendered as JSON with status 200
Ok(body) == [status |-> 200, kind |-> "json", body |-> body]

\* raise HTTPException(status_code, detail)
HttpError(status, detail) ==
    [status |-> status, kind |-> "json", body |-> [detail |-> detail]]

\* an exception that leaves generate_menu: the server's plain-text 500
Unhandled(exception) ==
    [status |-> 500, kind |-> "text", body |-> [text |-> "Internal Server Error"]]

(***************************************************************************)
(* generate_menu: POST /api/menu                                           *)
(***************************************************************************)
\* lines 141-142 without the trimming
IsEmptyInputUntrimmed(req_input) == req_input = <<>>

\* lines 141-142: not user_text
IsEmptyInput(req_input) == Strip(req_input) = <<>>

\* lines 147-156: the stub response
StubResponse(user_text, out) ==
    IF Raised(out) THEN Unhandled(out.exception)
    ELSE Ok([result |-> StubText, normalized |-> out, stub |-> TRUE])

\* lines 141-174: from the request to its response or to the first model call
Post(req_input) ==
    /\ phase = "serving"
    /\ pc = "idle"
    /\ served < MaxRequests
    /\ input' = req_input
    /\ LET user_text == Strip(req_input)
       IN IF IsEmptyInput(req_input)
          THEN /\ response' = HttpError(400, "Empty input")
               /\ pc' = "Done"
               /\ UNCHANGED <<tool_arg, tool_out, log>>
          ELSE IF DEBUG_STUB
          THEN /\ tool_arg' = user_text
               /\ tool_out' = normalize_request(user_text)
               /\ log' = <<"normalize_request">>
               /\ response' = StubResponse(user_text, tool_out')
               /\ pc' = "Done"
          ELSE IF model = "None"
          THEN /\ response' = HttpError(500, "Model not initialized (DEBUG_STUB=0, PROJECT_ID set).")
               /\ pc' = "Done"
               /\ UNCHANGED <<tool_arg, tool_out, log>>
          ELSE /\ log' = <<"generate_content">>
               /\ pc' = "AwaitingFirstResponse"
               /\ UNCHANGED <<tool_arg, tool_out, response>>
    /\ UNCHANGED <<first, second, exvars, config, served, reqs>>

\* line 176
PartsOf(r) == IF r.candidates # <<>> THEN r.candidates[1].parts ELSE <<>>

\* line 177: parts and parts[0].function_call
RequestsTool(parts) == parts # <<>> /\ "function_call" \in DOMAIN parts[1]

\* line 183: args.get("user_text", "")
ToolArg(args) == IF "user_text" \in DOMAIN args THEN args.user_text ELSE <<>>

\* the texts of the text parts, joined
RECURSIVE JoinText(_)
JoinText(parts) ==
    IF parts = <<>> THEN ""
    ELSE (IF "text" \in DOMAIN Head(parts) THEN Head(parts).text ELSE "")
         \o JoinText(Tail(parts))

\* line 205: first.text. The client library gives the text of a response
\* made of one text part and raises ValueError when there is no candidate
\* or no part; for several parts it raises or joins the text parts,
\* depending on its version.
TextOutcomes(r) ==
    LET parts == PartsOf(r)
    IN IF parts = <<>> THEN {[exception |-> "ValueError"]}
       ELSE IF Len(parts) = 1
            THEN IF "text" \in DOMAIN parts[1] THEN {[text |-> parts[1].text]}
                 ELSE {[exception |-> "ValueError"]}
            ELSE {[exception |-> "ValueError"], [text |-> JoinText(parts)]}

\* line 202: second.candidates[0].content.parts[0].text if second.candidates
\* else ""
SecondText(r) ==
    IF r.candidates = <<>> THEN [text |-> ""]
    ELSE LET parts == r.candidates[1].parts
         IN IF parts = <<>> THEN [exception |-> "IndexError"]
            ELSE IF "text" \in DOMAIN parts[1] THEN [text |-> parts[1].text]
            ELSE [exception |-> "AttributeError"]

\* line 203 with the shape of line 206
ToolResultDropped(text_out, out) ==
    Ok([result |-> text_out, normalized |-> Null, stub |-> FALSE])

\* line 203
ToolResult(text_out, out) ==
    Ok([result |-> text_out, normalized |-> out, stub |-> FALSE])

\* line 206
DirectResult(text_out) ==
    Ok([result |-> text_out, normalized |-> Null,
        config_loaded |-> Truthy(SECRET_CONFIG_TEXT), stub |-> FALSE])

\* lines 174-185 and 205-206: the first call returns r
FirstReturns(r) ==
    /\ pc = "AwaitingFirstResponse"
    /\ first' = r
    /\ LET parts == PartsOf(r)
       IN IF RequestsTool(parts)
          THEN LET fc == parts[1].function_call
               IN IF fc.name # "normalize_request"
                  THEN /\ response' = HttpError(500, "Unexpected function call: " \o fc.name)
                       /\ pc' = "Done"
                       /\ UNCHANGED <<tool_arg, tool_out, log>>
                  ELSE /\ tool_arg' = ToolArg(fc.args)
                       /\ tool_out' = normalize_request(tool_arg')
                       /\ IF Raised(tool_out')
                          THEN /\ log' = log \o <<"normalize_request">>
                               /\ response' = Unhandled(tool_out'.exception)
                               /\ pc' = "Done"
                          ELSE /\ log' = log \o <<"normalize_request", "generate_content">>
                               /\ pc' = "AwaitingToolResult"
                               /\ UNCHANGED response
          ELSE /\ \E o \in TextOutcomes(r) :
                     response' = IF Raised(o) THEN Unhandled(o.exception)
                                 ELSE DirectResult(o.text)
               /\ pc' = "Done"
               /\ UNCHANGED <<tool_arg, tool_out, log>>
    /\ UNCHANGED <<input, second, exvars, config, served, reqs>>

\* line 174: the first call raises
FirstRaises(message) ==
    /\ pc = "AwaitingFirstResponse"
    /\ first' = [exception |-> message]
    /\ response' = Unhandled(message)
    /\ pc' = "Done"
    /\ UNCHANGED <<input, second, tool_arg, tool_out, log, exvars, config, served, reqs>>

\* lines 185-203: the second call returns r
SecondReturns(r) ==
    /\ pc = "AwaitingToolResult"
    /\ second' = r
    /\ LET o == SecondText(r)
       IN response' = IF Raised(o) THEN Unhandled(o.exception)
                      ELSE ToolResult(o.text, tool_out)
    /\ pc' = "Done"
    /\ UNCHANGED <<input, first, tool_arg, tool_out, log, exvars, config, served, reqs>>

\* line 185: the second call raises
SecondRaises(message) ==
    /\ pc = "AwaitingToolResult"
    /\ second' = [exception |-> message]
    /\ response' = Unhandled(message)
    /\ pc' = "Done"
    /\ UNCHANGED <<input, first, tool_arg, tool_out, log, exvars, config, served, reqs>>

\* the response is sent and the request's locals are gone
Respond ==
    /\ pc = "Done"
    /\ pc' = "idle"
    /\ input' = <<>>
    /\ first' = Pending
    /\ second' = Pending
    /\ tool_arg' = <<>>
    /\ tool_out' = Pending
    /\ log' = <<>>
    /\ response' = Pending
    /\ served' = served + 1
    /\ UNCHANGED <<exvars, config, reqs>>

Next ==
    \/ Startup
    \/ \E req_input \in ReqInputs : Post(req_input)
    \/ \E r \in FirstResponses : FirstReturns(r)
    \/ \E m \in FailureMessages : FirstRaises(m)
    \/ \E r \in SecondResponses : SecondReturns(r)
    \/ \E m \in FailureMessages : SecondRaises(m)
    \/ Respond

Spec == Init /\ [][Next]_vars

(***************************************************************************)
(* A single call of the extractor on an arbitrary input                    *)
(***************************************************************************)
InitExtract ==
    /\ ex_pc = "ready"
    /\ ex_in \in Inputs
    /\ ex_out = Pending
    /\ env = [DEBUG_STUB |-> Unset, PROJECT_ID |-> Unset]
    /\ phase = "import"
    /\ DEBUG_STUB = TRUE
    /\ PROJECT_ID = Unset
    /\ SECRET_CONFIG_TEXT = "None"
    /\ model = "None"
    /\ NoRequest
    /\ served = 0
    /\ reqs = [c \in Clients |-> Idle]

ExtractCall ==
    /\ ex_pc = "ready"
    /\ ex_out' = normalize_request(ex_in)
    /\ ex_pc' = "returned"
    /\ UNCHANGED <<ex_in, config, reqvars, served, reqs>>

NextExtract == ExtractCall

SpecExtract == InitExtract /\ [][NextExtract]_vars

(***************************************************************************)
(* Several requests in flight: generate_menu on the locals of one request  *)
(*                                                                         *)
(* Each request runs generate_menu in a thread of its own.  Its locals are *)
(* one record of reqs; the module globals are the only state the threads   *)
(* share.  A thread is preempted at any point, but what it does between    *)
(* two model calls touches its own locals only, so those stretches are     *)
(* single steps.                                                           *)
(***************************************************************************)
\* request texts and model behaviour of the concurrent runs
ConcInputs == {<<" ">>, <<"a", ",", "b">>, Marker, Marker \o <<"b">>}

ConcCalls ==
    {[name |-> "normalize_request", args |-> <<>>],
     [name |-> "normalize_request", args |-> [user_text |-> <<"a", ",", "b">>]],
     [name |-> "get_weather", args |-> <<>>]}

ConcFirstResponses ==
    {Response(<<TextPart("Plan A")>>)}
    \cup {Response(<<CallPart(fc)>>) : fc \in ConcCalls}

ConcSecondResponses == {NoCandidates, Response(<<TextPart("Plan B")>>)}

ConcFailure == "503 Service Unavailable"

\* a handler that gives up on the model after a failed call: global DEBUG_STUB
GlobalsAfterGivingUp(globals, r) ==
    IF Raised(r.first) \/ Raised(r.second)
    THEN [globals EXCEPT !.DEBUG_STUB = TRUE]
    ELSE globals

\* lines 139-206: the module globals after a step that left the request in r.
\* generate_menu has no global statement and assigns local names only.
GlobalsAfter(globals, r) == globals

\* lines 141-174 on fresh locals, under the globals debug_stub and mdl
AfterPost(req_input, debug_stub, mdl) ==
    LET user_text == Strip(req_input)
        r == [Idle EXCEPT !.input = req_input]
    IN IF IsEmptyInput(req_input)
       THEN [r EXCEPT !.response = HttpError(400, "Empty input"), !.pc = "Done"]
       ELSE IF debug_stub
       THEN [r EXCEPT !.tool_arg = user_text,
                      !.tool_out = normalize_request(user_text),
                      !.log = <<"normalize_request">>,
                      !.response = StubResponse(user_text, normalize_request(user_text)),
                      !.pc = "Done"]
       ELSE IF mdl = "None"
       THEN [r EXCEPT !.response = HttpError(500, "Model not initialized (DEBUG_STUB=0, PROJECT_ID set)."),
                      !.pc = "Done"]
       ELSE [r EXCEPT !.log = <<"generate_content">>, !.pc = "AwaitingFirstResponse"]

\* lines 174-185 and 205-206: the locals after the first call returned resp
AfterFirst(r, resp) ==
    LET parts == PartsOf(resp)
        got == [r EXCEPT !.first = resp]
    IN IF RequestsTool(parts)
       THEN LET fc == parts[1].function_call
                out == normalize_request(ToolArg(fc.args))
            IN IF fc.name # "normalize_request"
               THEN {[got EXCEPT !.response = HttpError(500, "Unexpected function call: " \o fc.name),
                                 !.pc = "Done"]}
               ELSE IF Raised(out)
               THEN {[got EXCEPT !.tool_arg = ToolArg(fc.args), !.tool_out = out,
                                 !.log = r.log \o <<"normalize_request">>,
                                 !.response = Unhandled(out.exception),
                                 !.pc = "Done"]}
               ELSE {[got EXCEPT !.tool_arg = ToolArg(fc.args), !.tool_out = out,
                                 !.log = r.log \o <<"normalize_request", "generate_content">>,
                                 !.pc = "AwaitingToolResult"]}
       ELSE {[got EXCEPT !.response = IF Raised(o) THEN Unhandled(o.exception)
                                      ELSE DirectResult(o.text),
                         !.pc = "Done"] : o \in TextOutcomes(resp)}

\* lines 185-203: the locals after the second call returned resp
AfterSecond(r, resp) ==
    LET o == SecondText(resp)
    IN [r EXCEPT !.second = resp,
                 !.response = IF Raised(o) THEN Unhandled(o.exception)
                              ELSE ToolResult(o.text, r.tool_out),
                 !.pc = "Done"]

\* lines 174 and 185: the locals after a model call raised
AfterRaise(r, message) ==
    IF r.pc = "AwaitingFirstResponse"
    THEN [r EXCEPT !.first = [exception |-> message],
                   !.response = Unhandled(message), !.pc = "Done"]
    ELSE [r EXCEPT !.second = [exception |-> message],
                   !.response = Unhandled(message), !.pc = "Done"]

Globals == [DEBUG_STUB |-> DEBUG_STUB, model |-> model]

\* the clients whose request is between its arrival and its response
InFlight == {c \in Clients : reqs[c].pc \in {"AwaitingFirstResponse", "AwaitingToolResult"}}

\* client c's thread has brought its request to r
Commit(c, r) ==
    /\ reqs' = [reqs EXCEPT ![c] = r]
    /\ LET g == GlobalsAfter(Globals, r)
       IN /\ DEBUG_STUB' = g.DEBUG_STUB
          /\ model' = g.model
    /\ UNCHANGED <<env, phase, PROJECT_ID, SECRET_CONFIG_TEXT, exvars, reqvars, served>>

ConcPost(c, req_input) ==
    /\ phase = "serving"
    /\ reqs[c].pc = "idle"
    /\ Commit(c, [AfterPost(req_input, DEBUG_STUB, model) EXCEPT !.peers = InFlight])

ConcFirstReturns(c, resp) ==
    /\ reqs[c].pc = "AwaitingFirstResponse"
    /\ \E r \in AfterFirst(reqs[c], resp) : Commit(c, r)

ConcSecondReturns(c, resp) ==
    /\ reqs[c].pc = "AwaitingToolResult"
    /\ Commit(c, AfterSecond(reqs[c], resp))

ConcRaises(c) ==
    /\ reqs[c].pc \in {"AwaitingFirstResponse", "AwaitingToolResult"}
    /\ Commit(c, AfterRaise(reqs[c], ConcFailure))

InitConc ==
    /\ Init
    /\ SECRET_CONFIG_TEXT = "None"
    /\ env.DEBUG_STUB \in {Unset, "0"}
    /\ env.PROJECT_ID = "my-project"

NextConc ==
    \/ Startup
    \/ \E c \in Clients, req_input \in ConcInputs : ConcPost(c, req_input)
    \/ \E c \in Clients, resp \in ConcFirstResponses : ConcFirstReturns(c, resp)
    \/ \E c \in Clients, resp \in ConcSecondResponses : ConcSecondReturns(c, resp)
    \/ \E c \in Clients : ConcRaises(c)

SpecConc == InitConc /\ [][NextConc]_vars

(***************************************************************************)
(* What the extractor is specified to compute, stated on character         *)
(* positions of the text itself and independently of normalize_request     *)
(***************************************************************************)
\* the text without its leading and trailing whitespace
Trimmed(t) ==
    LET ink == {i \in 1..Len(t) : t[i] \notin Whitespace}
    IN IF ink = {} THEN <<>>
       ELSE SubSeq(t, CHOOSE i \in ink : \A j \in ink : i <= j,
                      CHOOSE i \in ink : \A j \in ink : i >= j)

\* a letter without its case
Fold(c) == IF c = "I" THEN "i" ELSE IF c = "A" THEN "a" ELSE c

\* the marker stands at position p of t, in any letter case
MarkerAt(t, p) ==
    /\ p + Len(Marker) - 1 <= Len(t)
    /\ \A k \in 1..Len(Marker) : Fold(t[p + k - 1]) = Marker[k]

\* position of the first marker in t, 0 if there is none
MarkerPos(t) ==
    LET ps == {p \in 1..Len(t) : MarkerAt(t, p)}
    IN IF ps = {} THEN 0 ELSE CHOOSE p \in ps : \A q \in ps : p <= q

\* everything after the first marker
AfterMarker(t) == SubSeq(t, MarkerPos(t) + Len(Marker), Len(t))

\* what follows the first marker on its line
RestOfLine(t) ==
    LET r == AfterMarker(t)
        brk == {i \in 1..Len(r) : r[i] \in LineBreaks}
    IN IF brk = {} THEN r
       ELSE SubSeq(r, 1, (CHOOSE i \in brk : \A j \in brk : i <= j) - 1)

\* the comma-separated fields of s, in order
Fields(s) ==
    LET cuts == {0, Len(s) + 1} \cup {i \in 1..Len(s) : s[i] = ","}
        nth(i) == CHOOSE c \in cuts : Cardinality({d \in cuts : d < c}) = i - 1
    IN [i \in 1..(Cardinality(cuts) - 1) |-> SubSeq(s, nth(i) + 1, nth(i + 1) - 1)]

\* the fields of s, each trimmed, the empty ones left out
ListOf(s) ==
    LET f == Fields(s)
    IN SelectSeq([i \in 1..Len(f) |-> Trimmed(f[i])], IsNonEmpty)

HasComma(t) == \E i \in 1..Len(t) : t[i] = ","

\* only whitespace and commas
BlankPieces(s) == \A i \in 1..Len(s) : s[i] \in Whitespace \cup {","}

(***************************************************************************)
(* Claims about the extractor (checked under SpecExtract)                  *)
(***************************************************************************)
\* C3: for every input that contains the marker (in any letter case) followed
\* on the same line by a comma-separated list, normalize_request returns as
\* ingredients exactly the trimmed non-empty pieces of that line after the
\* first marker, in order, and the record has no error field.
C3_MarkerListExtracted ==
    ex_pc = "returned" =>
        LET t == Trimmed(ex_in)
        IN (MarkerPos(t) # 0 /\ ListOf(RestOfLine(t)) # <<>>) =>
              /\ ~Raised(ex_out)
              /\ "error" \notin DOMAIN ex_out
              /\ ex_out.ingredients = ListOf(RestOfLine(t))

\* C4: for every input without the marker that contains a comma, a trimmed
\* length of at most 200 gives the trimmed non-empty comma-separated pieces
\* of the trimmed text, and a trimmed length of 201 or more gives an empty
\* ingredient list and the error field.
C4_ShortCommaListSplit ==
    ex_pc = "returned" =>
        LET t == Trimmed(ex_in)
        IN (MarkerPos(t) = 0 /\ HasComma(t)) =>
              /\ ~Raised(ex_out)
              /\ Len(t) <= 200 => ex_out.ingredients = ListOf(t)
              /\ Len(t) >= 201 => /\ ex_out.ingredients = <<>>
                                  /\ "error" \in DOMAIN ex_out

\* C4 witness: a comma-separated text of exactly 200 characters was split
C4_Witness ==
    /\ ex_pc = "returned"
    /\ MarkerPos(Trimmed(ex_in)) = 0
    /\ HasComma(Trimmed(ex_in))
    /\ Len(Trimmed(ex_in)) = 200
    /\ ~Raised(ex_out)
    /\ Len(ex_out.ingredients) = 2

\* the inputs of C5: nothing but blank or empty pieces after the marker, or
\* no marker and no short comma-separated list
NoListInput(t) ==
    IF MarkerPos(t) # 0 THEN BlankPieces(AfterMarker(t))
    ELSE ~HasComma(t) \/ Len(t) > 200 \/ ListOf(t) = <<>>

\* C5: for every input, normalize_request returns a record whose notes is the
\* trimmed input; and when the input has neither a list after the marker nor
\* a short comma-separated list, the record has an empty ingredient list and
\* an error field.
C5_NoListGivesError ==
    ex_pc = "returned" =>
        LET t == Trimmed(ex_in)
        IN /\ ~Raised(ex_out)
           /\ ex_out.notes = t
           /\ NoListInput(t) => /\ ex_out.ingredients = <<>>
                                /\ "error" \in DOMAIN ex_out

(***************************************************************************)
(* Claims about the service (checked under Spec)                           *)
(***************************************************************************)
\* number of model calls the request has made
ModelCalls == Cardinality({i \in 1..Len(log) : log[i] = "generate_content"})

ExtractorRuns == Cardinality({i \in 1..Len(log) : log[i] = "normalize_request"})

\* the environment selects live mode / leaves the project unset
LiveSelected == env.DEBUG_STUB \notin {Unset, "1"}

ProjectMissing == env.PROJECT_ID \in {Unset, ""}

\* the function calls a response asks for, in any of its parts
CallsIn(r) ==
    IF Raised(r) \/ r = Pending \/ r.candidates = <<>> THEN {}
    ELSE LET parts == r.candidates[1].parts
         IN {parts[i].function_call :
               i \in {j \in 1..Len(parts) : "function_call" \in DOMAIN parts[j]}}

\* the response is JSON with this status and this detail
IsHttpError(status, detail) ==
    /\ response.status = status
    /\ response.kind = "json"
    /\ "detail" \in DOMAIN response.body
    /\ response.body.detail = detail

\* C1: in stub mode every request whose input is non-blank after trimming is
\* answered 200 with the fixed stub text, stub = true and normalized equal to
\* the extractor's record for the trimmed input, without any model call.
C1_StubAlwaysAnswers ==
    (DEBUG_STUB /\ pc = "Done" /\ Trimmed(input) # <<>>) =>
        /\ ModelCalls = 0
        /\ tool_arg = Trimmed(input)
        /\ ~Raised(tool_out)
        /\ response.status = 200
        /\ response.body.result = StubText
        /\ response.body.stub = TRUE
        /\ response.body.normalized = tool_out

\* C2: in stub and in live mode, a request whose input is empty after
\* trimming is answered 400 with detail "Empty input", and neither the
\* extractor nor the model has been called.
C2_EmptyInputRejected ==
    (pc = "Done" /\ Trimmed(input) = <<>>) =>
        /\ IsHttpError(400, "Empty input")
        /\ log = <<>>
        /\ tool_out = Pending
        /\ first = Pending

\* C2 witness: a whitespace-only input was rejected in live mode
C2_Witness ==
    /\ pc = "Done"
    /\ ~DEBUG_STUB
    /\ input # <<>>
    /\ Trimmed(input) = <<>>
    /\ response.status = 400

C6_NeverServes ==
    /\ (LiveSelected /\ ProjectMissing) =>
          /\ phase # "serving"
          /\ ~DEBUG_STUB
          /\ pc = "idle"
          /\ served = 0
    /\ (~DEBUG_STUB /\ ModelCalls > 0) => model # "None"

\* C6: when the environment selects live mode and PROJECT_ID is not set, the
\* process never serves, never turns into stub mode and never handles a
\* request, and the only step initialization can take is to fail; and no
\* request is past the model check in live mode with the model handle
\* missing.
C6_LiveWithoutProjectFails ==
    /\ []C6_NeverServes
    /\ [][(LiveSelected /\ ProjectMissing /\ phase = "import") => phase' = "failed"]_vars

\* C6 witness: initialization failed for live mode without PROJECT_ID
C6_Witness ==
    /\ phase = "failed"
    /\ LiveSelected
    /\ env.PROJECT_ID = Unset

\* C7: in live mode, when the first response asks for a function whose name
\* is not exactly "normalize_request", the request fails with a 500 whose
\* detail names that function, the extractor is not run and no second model
\* call is made.
C7_UnexpectedToolRejected ==
    (pc = "Done" /\ ~DEBUG_STUB) =>
        \A fc \in CallsIn(first) :
            fc.name # "normalize_request" =>
                /\ IsHttpError(500, "Unexpected function call: " \o fc.name)
                /\ tool_out = Pending
                /\ ModelCalls = 1

\* C8: in live mode, when the first or the second model call raises, the
\* request ends with a 500 that is JSON whose detail is the failure's
\* message, after no further call.
C8_UpstreamFailureSurfaced ==
    (pc = "Done" /\ ~DEBUG_STUB) =>
        /\ Raised(first) => (IsHttpError(500, first.exception) /\ ModelCalls = 1)
        /\ Raised(second) => (IsHttpError(500, second.exception) /\ ModelCalls = 2)

\* the first part of the response is a text part
HasFirstText(r) ==
    /\ ~Raised(r)
    /\ r.candidates # <<>>
    /\ r.candidates[1].parts # <<>>
    /\ "text" \in DOMAIN r.candidates[1].parts[1]

\* C9: in live mode a request makes at most two model calls, in the order
\* first call, extractor, second call; the second call is made only after
\* the first response asked for normalize_request and the extractor has run
\* on the user_text argument of that call (the empty text when absent); and
\* the request then returns result = the first text of the second response
\* (the empty text when it has no candidate), normalized = the extractor's
\* record and stub = false.
C9_TwoRoundExchange ==
    (~DEBUG_STUB /\ phase = "serving") =>
        /\ log \in {<<>>, <<"generate_content">>,
                    <<"generate_content", "normalize_request">>,
                    <<"generate_content", "normalize_request", "generate_content">>}
        /\ ModelCalls = 2 =>
              /\ first.candidates[1].parts[1].function_call.name = "normalize_request"
              /\ LET args == first.candidates[1].parts[1].function_call.args
                 IN tool_arg = IF "user_text" \in DOMAIN args THEN args.user_text ELSE <<>>
              /\ ~Raised(tool_out)
              /\ tool_out.notes = Trimmed(tool_arg)
        /\ (pc = "Done" /\ ModelCalls = 2 /\ (HasFirstText(second) \/ second = NoCandidates)) =>
              /\ response.status = 200
              /\ response.body.result =
                    IF second = NoCandidates THEN ""
                    ELSE second.candidates[1].parts[1].text
              /\ response.body.normalized = tool_out
              /\ response.body.stub = FALSE
              /\ DOMAIN response.body = {"result", "normalized", "stub"}

\* C9 witness: a tool-mediated answer after a call without user_text
C9_Witness ==
    /\ pc = "Done"
    /\ log = <<"generate_content", "normalize_request", "generate_content">>
    /\ first.candidates[1].parts[1].function_call.args = <<>>
    /\ response.status = 200
    /\ response.body.result = "Plan B"
    /\ "error" \in DOMAIN response.body.normalized

\* the request went into the branch of line 178
TookToolBranch ==
    \/ ExtractorRuns > 0
    \/ response # Pending /\ response.kind = "json" /\ response.status = 500

\* the response is one text part
IsPlainText(r) ==
    /\ HasFirstText(r)
    /\ Len(r.candidates[1].parts) = 1

\* C10: in live mode the tool-mediated branch is taken exactly when the first
\* response holds a function call, in any of its parts; and a first response
\* that is plain text gives exactly one model call, no extractor run, and
\* result = that text, normalized = null, stub = false.
C10_ToolBranchIffRequested ==
    (~DEBUG_STUB /\ first # Pending /\ ~Raised(first)) =>
        /\ TookToolBranch <=> CallsIn(first) # {}
        /\ (pc = "Done" /\ IsPlainText(first)) =>
              /\ ModelCalls = 1
              /\ tool_out = Pending
              /\ response.status = 200
              /\ response.body.result = first.candidates[1].parts[1].text
              /\ response.body.normalized = Null
              /\ response.body.stub = FALSE

(***************************************************************************)
(* Claims about concurrent requests (checked under SpecConc)               *)
(***************************************************************************)
\* the mode and the model handle that the environment selects at startup
StartupStub == env.DEBUG_STUB \in {Unset, "1"}

StartupModel == IF StartupStub THEN "None" ELSE "GenerativeModel"

\* the responses a request gives when it runs alone, under the globals set
\* at startup, on input inp with the model answering f and then s
AloneResponses(inp, f, s) ==
    LET r0 == AfterPost(inp, StartupStub, StartupModel)
        after1 == IF r0.pc = "Done" THEN {r0}
                  ELSE IF Raised(f) THEN {AfterRaise(r0, f.exception)}
                  ELSE AfterFirst(r0, f)
        after2(r1) == IF r1.pc = "Done" THEN r1
                      ELSE IF Raised(s) THEN AfterRaise(r1, s.exception)
                      ELSE AfterSecond(r1, s)
    IN {after2(r1).response : r1 \in after1}

C11_Isolated ==
    phase = "serving" =>
        /\ DEBUG_STUB = StartupStub
        /\ model = StartupModel
        /\ PROJECT_ID = env.PROJECT_ID
        /\ \A c \in Clients :
              reqs[c].pc = "Done" =>
                 reqs[c].response \in
                    AloneResponses(reqs[c].input, reqs[c].first, reqs[c].second)

\* C11: under any interleaving of concurrent requests, no step of a request
\* changes the stub flag, the model handle or the other configuration
\* values, which stay as startup set them, and the response of every
\* finished request is one it gives when it runs alone on its own input
\* with the same model answers.
C11_RequestsDoNotInterfere ==
    /\ []C11_Isolated
    /\ [][phase = "serving" => UNCHANGED config]_vars

\* C11 witness: two requests on different inputs overlapped in live mode and
\* both were answered, one through the tool branch and one by a failure
C11_Witness ==
    /\ ~DEBUG_STUB
    /\ reqs[1].pc = "Done"
    /\ reqs[2].pc = "Done"
    /\ 1 \in reqs[2].peers
    /\ reqs[1].input # reqs[2].input
    /\ Len(reqs[1].log) = 3
    /\ reqs[1].response.status = 200
    /\ Raised(reqs[2].first)

====
